---- MODULE Spec2Model ----
(***************************************************************************)
(* Model of FTP_IPI.py: the MilitaryGradeSFTP engine (connect, close,      *)
(* verify_connection, download_with_armor) and the retry loop of main().   *)
(*                                                                         *)
(* File names and the content of LAST_FILE_RECORD are sequences of         *)
(* one-character strings, file contents are sequences of byte values.      *)
(* The remote file holds the bytes 1..remoteSize at offsets 0..size-1.     *)
(***************************************************************************)
EXTENDS Integers, Sequences, FiniteSets, TLC

(* ---------------- program constants ---------------- *)

MAX_RETRIES == 7

RETRY_BACKOFF == <<5, 10, 30, 60, 120, 300, 600>>

\* extract_date keeps a name only when it yields this many digits
DATE_LEN == 8

\* the substring a listing entry must contain
MARKER == <<"I", "P", "I">>

(* ---------------- bounds of the model ---------------- *)

\* largest remote file size (bytes)
MaxSize == 3

\* largest CHUNK_SIZE (bytes)
MaxChunk == 2

\* most entries of a remote listing
MaxListing == 2

\* most size changes of the remote file during a run
MaxRemoteChanges == 1

\* most characters a failed write of LAST_FILE_RECORD leaves in the file
MaxPartial == 1

(* ---------------- names ---------------- *)

F1 == <<"2","0","2","5","0","1","0","1",".","I","P","I">>

F2 == <<"2","0","2","5","0","1","0","2",".","I","P","I">>

F3 == <<"2","0","2","5","0","1","0","3",".","I","P","I">>

\* same date token as F2
F2b == <<"I","P","I","2","0","2","5","0","1","0","2">>

\* no digits at all
FBad == <<"b","a","d",".","I","P","I">>

\* nine digits
FNine == <<"I","P","I","_","v","2","_","2","0","2","5","0","1","0","0">>

\* 8 digits, earliest date, but the marker in lower case
FLower == <<"2","0","2","5","0","1","0","0",".","i","p","i">>

\* a record holding a short digit string
RShort == <<"v","3">>

Pool == <<F1, F2, F3, F2b, FBad, FNine, FLower>>

PoolSet == {Pool[i] : i \in 1..Len(Pool)}

(* ---------------- pure functions ---------------- *)

DigitChars == <<"0","1","2","3","4","5","6","7","8","9">>

IsDigit(c) == \E i \in 1..10 : DigitChars[i] = c

\* code point order of two digit characters
DigitVal(c) == CHOOSE i \in 1..10 : DigitChars[i] = c

\* ''.join(filter(str.isdigit, s))
Digits(s) == SelectSeq(s, IsDigit)

\* extract_date: the digits when there are exactly 8 of them, else None (<<>>)
extract_date(file_name) ==
    IF Len(Digits(file_name)) = DATE_LEN THEN Digits(file_name) ELSE <<>>

\* 'IPI' in f
HasMarker(f) ==
    \E i \in 1..(Len(f) - Len(MARKER) + 1) :
        SubSeq(f, i, i + Len(MARKER) - 1) = MARKER

\* Python's a > b on two digit strings: compare element by element, the
\* longer string wins when one is a prefix of the other
RECURSIVE StrGreater(_, _)
StrGreater(a, b) ==
    IF a = <<>> THEN FALSE
    ELSE IF b = <<>> THEN TRUE
    ELSE IF Head(a) = Head(b) THEN StrGreater(Tail(a), Tail(b))
    ELSE DigitVal(Head(a)) > DigitVal(Head(b))

\* the first element of a non-empty list of names with the smallest date
\* token, as min(filtered_files, key=extract_date) returns it
RECURSIVE MinByDate(_)
MinByDate(fs) ==
    IF Len(fs) = 1 THEN fs[1]
    ELSE LET m == MinByDate(Tail(fs))
         IN  IF StrGreater(extract_date(fs[1]), extract_date(m)) THEN m ELSE fs[1]

\* last_date_str: <<>> stands for None, <<d>> for the digit string d
LastDateStr(rec) == IF rec.exists THEN <<Digits(rec.data)>> ELSE <<>>

\* files = [f for f in engine.sftp.listdir() if 'IPI' in f]
MarkedFiles(names) == SelectSeq(names, HasMarker)

\* PassesFilter with >= in place of >
PassesFilterOrEqual(f, last) ==
    /\ extract_date(f) # <<>>
    /\ (last = <<>> \/ ~StrGreater(last[1], extract_date(f)))

\* the test of the filter loop on one file
PassesFilter(f, last) ==
    /\ extract_date(f) # <<>>
    /\ (last = <<>> \/ StrGreater(extract_date(f), last[1]))

\* filtered_files
FilteredFiles(files, last) == SelectSeq(files, LAMBDA f : PassesFilter(f, last))

\* the first n bytes of the remote file
Bytes(n) == [k \in 1..n |-> k]

\* remote_file.read(CHUNK_SIZE) at position pos of a file of size bytes
ReadChunk(size, pos, chunk) ==
    IF pos >= size THEN <<>>
    ELSE SubSeq(Bytes(size), pos + 1, IF pos + chunk < size THEN pos + chunk ELSE size)

NoFile == [exists |-> FALSE, data |-> <<>>]

File(d) == [exists |-> TRUE, data |-> d]

\* os.path.getsize(local_path) if os.path.exists(local_path) else 0
ResumeOffset(f) == IF f.exists THEN Len(f.data) ELSE 0

\* OpenMode of a download that always starts the local file afresh
OpenModeTruncate(lb) == "wb"

\* mode = 'ab' if self.last_byte > 0 else 'wb'
OpenMode(lb) == IF lb > 0 THEN "ab" ELSE "wb"

\* the local file right after open(local_path, mode)
OpenLocal(f, mode) == IF mode = "ab" /\ f.exists THEN f ELSE File(<<>>)

\* AlreadyComplete with > in place of >=
AlreadyCompleteStrict(lb, size) == lb > size

\* if self.last_byte >= self.file_size: return True
AlreadyComplete(lb, size) == lb >= size

\* SeekPos without the seek: the remote handle stays at offset 0
SeekPosNoSeek(lb) == 0

\* the position of the remote handle after the optional seek
SeekPos(lb) == IF lb > 0 THEN lb ELSE 0

(* ---------------- clock ---------------- *)
\* A reading of time.time() modulo 30 s falls in one of six phases: phase 2k
\* is the instant 10k s exactly, phase 2k+1 is any instant strictly between
\* 10k s and 10(k+1) s. Any time may pass between two readings, and two
\* readings may return the same value, so each reading is any phase.
Phases == 0..5

\* time.time() % 10 == 0
WatchdogDue(t) == t % 2 = 0

\* time.time() % 30 == 0
ProgressDue(t) == t % 6 = 0

\* no reading of the clock was made yet in the download loop
NoReading == 0 - 1

\* whether at least 10 s lie between a reading in phase p and a later one in
\* phase q, however the clock advanced: three phases on, or from one exact
\* multiple of 10 s to the next
IntervalElapsed(p, q) ==
    LET d == (q - p) % 6
    IN  d >= 3 \/ (d = 2 /\ p % 2 = 0)

\* one more use of LAST_FILE_RECORD; 2 stands for two uses or more
Counted(n) == IF n < 2 THEN n + 1 ELSE 2

(* ---------------- state ---------------- *)

VARIABLES
    pc,             \* position of main()
    attempt,        \* the loop variable of main
    transport,      \* engine.transport: "none", "open", "closed"
    sftp,           \* engine.sftp: "none", "open", "closed"
    last_byte,      \* engine.last_byte
    file_size,      \* engine.file_size
    rpos,           \* position of the remote read handle
    remote_file,    \* the selected name, <<>> before selection
    err,            \* the exception being propagated, "none" if none
    last_error,     \* main's last_error
    outcome,        \* "running", "no_files", "no_new", "accomplished", "exhausted"
    record,         \* the file LAST_FILE_RECORD
    localDir,       \* LOCAL_DIR: name -> file
    serverDir,      \* SERVER_DIR: name -> file
    listing,        \* what listdir() returns
    remoteSize,     \* size of the remote files
    chunkSize,      \* CHUNK_SIZE
    alive,          \* whether the transport still reaches the server
    remoteBudget,   \* number of size changes of the remote file still to come
    openTransports, \* number of transports currently open
    closeCalls,     \* number of close() calls made
    nfailed,        \* number of attempts that entered the except clause
    sleeps,         \* the delays slept so far
    evt,            \* what the current attempt did so far
    startLocal,     \* the selected local file when download_with_armor was called
    seeded,         \* names whose local file was there before the run
    remoteChanged,  \* whether the remote file changed size during the run
    clock,          \* phase of the last reading of line 137 in the running loop
    recordReads,    \* times LAST_FILE_RECORD was opened for reading in the run
    recordWrites,   \* times LAST_FILE_RECORD was opened for writing in the run
    recordTop       \* the latest date token LAST_FILE_RECORD has held, <<>> if none

vars == <<pc, attempt, transport, sftp, last_byte, file_size, rpos, remote_file,
          err, last_error, outcome, record, localDir, serverDir, listing,
          remoteSize, chunkSize, alive, remoteBudget, openTransports,
          closeCalls, nfailed, sleeps, evt, startLocal, seeded,
          remoteChanged, clock, recordReads, recordWrites, recordTop>>

\* the values main() and the engine start with, for given surroundings
InitWith(listings, records, sizes, chunks, seeds, budgets) ==
    /\ pc = "attempt"
    /\ attempt = 0
    /\ transport = "none"
    /\ sftp = "none"
    /\ last_byte = 0
    /\ file_size = 0
    /\ rpos = 0
    /\ remote_file = <<>>
    /\ err = "none"
    /\ last_error = "none"
    /\ outcome = "running"
    /\ record \in records
    /\ listing \in listings
    /\ remoteSize \in sizes
    /\ chunkSize \in chunks
    /\ \E n \in PoolSet, d \in seeds :
           /\ localDir = [f \in PoolSet |-> IF f = n THEN d ELSE NoFile]
           /\ seeded = IF d.exists THEN {n} ELSE {}
           /\ (~d.exists => n = F1)
           /\ (d.exists => \E i \in 1..Len(listing) : listing[i] = n)
    /\ serverDir = [f \in PoolSet |-> NoFile]
    /\ alive = FALSE
    /\ remoteBudget \in budgets
    /\ openTransports = 0
    /\ closeCalls = 0
    /\ nfailed = 0
    /\ sleeps = <<>>
    /\ evt = <<>>
    /\ startLocal = NoFile
    /\ remoteChanged = FALSE
    /\ clock = NoReading
    /\ recordReads = 0
    /\ recordWrites = 0
    /\ recordTop = extract_date(record.data)

\* local files left by earlier runs: a prefix of the remote bytes, one byte
\* more than the largest remote file, or foreign bytes
Seeds == {NoFile, File(<<9>>)} \cup {File(Bytes(k)) : k \in 0..(MaxSize + 1)}

\* a run that downloads one file, with any local file left by earlier runs
InitDownload ==
    InitWith({<<F1>>}, {NoFile}, 0..MaxSize, 1..MaxChunk, Seeds, {0})

\* a run during which the remote file changes size
InitChanging ==
    InitWith({<<F1>>}, {NoFile}, 1..MaxSize, 1..MaxChunk, {NoFile},
             1..MaxRemoteChanges)

\* a run with an older file recorded and two files listed
InitRetry ==
    InitWith({<<F1, F2>>}, {File(F1)}, {1}, {1}, {NoFile, File(<<1>>)}, {0})

\* runs that find nothing to download
InitNothing ==
    InitWith({<<>>, <<FLower>>, <<FBad, FLower>>, <<F1>>, <<F2, F1>>},
             {File(F2)}, {1}, {1}, {NoFile}, {0})

\* a run with a file recorded, an older and a newer one listed
InitOlderListed ==
    InitWith({<<F1, F3>>}, {File(F2)}, {1}, {1}, {NoFile}, {0})

Init ==
    InitDownload \/ InitChanging \/ InitRetry \/ InitNothing \/ InitOlderListed

\* every listing of at most MaxListing distinct names of the pool
Listings ==
    {s \in UNION {[1..n -> PoolSet] : n \in 0..MaxListing} :
        \A i, j \in DOMAIN s : i # j => s[i] # s[j]}

\* contents of LAST_FILE_RECORD: none, empty, cut short, names, other text
RecordValues ==
    {NoFile, File(<<>>), File(<<"2">>), File(F1), File(F2), File(RShort),
     File(FNine)}

\* any listing and any record
InitSel == InitWith(Listings, RecordValues, {1}, {1}, {NoFile}, {0})

(* ---------------- the engine ---------------- *)

\* the variables no action of main() touches
UNCHANGED_ENV ==
    UNCHANGED <<listing, remoteSize, chunkSize, remoteBudget, seeded, remoteChanged>>

\* the later of two date tokens, <<>> standing for none
LaterToken(a, b) == IF StrGreater(a, b) THEN a ELSE b

\* raise: the exception of class e travels to the except clause of main
\* (IOError is OSError; paramiko raises SSHException, IOError or EOFError)
Raise(e) == /\ err' = e
            /\ pc' = "except"

\* how far connect() gets: "ctor" fails creating the Transport, "auth" fails
\* in transport.connect, "setup" fails in chdir or setsockopt, "ok" returns
ConnectOutcomes == {"ctor", "auth", "setup", "ok"}

\* engine.connect(), lines 61-89, called at the top of an attempt
Connect(o) ==
    /\ pc = "attempt"
    /\ attempt < MAX_RETRIES
    /\ evt' = <<"connect">>
    /\ IF o = "ctor"
       THEN UNCHANGED <<transport, sftp, openTransports, alive>>
       ELSE /\ transport' = "open"
            /\ openTransports' = openTransports + 1
            /\ alive' = TRUE
            /\ sftp' = IF o = "auth" THEN sftp ELSE "open"
    /\ IF o = "ok"
       THEN pc' = "select" /\ UNCHANGED err
       ELSE Raise("SSHException")
    /\ UNCHANGED <<attempt, last_byte, file_size, rpos, remote_file, last_error,
                   outcome, record, localDir, serverDir, closeCalls,
                   nfailed, sleeps, startLocal>>
    /\ UNCHANGED_ENV
    /\ UNCHANGED <<clock, recordReads, recordWrites, recordTop>>

\* the transport field after engine.close()
ClosedTransport(t) == IF t = "none" THEN "none" ELSE "closed"

\* the sftp field after engine.close()
ClosedSftp(s) == IF s = "none" THEN "none" ELSE "closed"

\* AfterCloseOpen when close() does not reach self.transport.close()
AfterCloseOpenLeak(t, n) == n

\* the number of open transports after engine.close()
AfterCloseOpen(t, n) == IF t = "open" THEN n - 1 ELSE n

\* which of the two release calls of close() raise: self.sftp.close(),
\* self.transport.close(), both or none
CloseOutcomes == {"ok", "sftp", "transport", "both"}

\* self.sftp.close() raises
SftpCloseRaises(o) == o \in {"sftp", "both"}

\* self.transport.close() raises
TransportCloseRaises(o) == o \in {"transport", "both"}

\* TransportCloseReached of a close() with one try block around both calls
TransportCloseReachedOneTry(o) == ~SftpCloseRaises(o)

\* whether close() gets to self.transport.close(): the first try block has
\* swallowed whatever self.sftp.close() raised
TransportCloseReached(o) == TRUE

\* whether an exception leaves close(): both handlers are `except: pass`
CloseRaises(o) == FALSE

(* ---------------- main() ---------------- *)

\* Return taken for a failure: the except clause runs and the loop goes on
ReturnAsFailure(o) == Raise("OSError") /\ UNCHANGED outcome

\* return inside the try block: the finally clause runs, then main ends
Return(o) == /\ outcome' = o
             /\ pc' = "finally"
             /\ UNCHANGED err

\* lines 183-218: read the record, list, filter, select. o is "ok" or the
\* call that raises: "read_record", "listdir", "makedirs"
SelectFile(o) ==
    /\ pc = "select"
    /\ LET last     == LastDateStr(record)
           files    == MarkedFiles(listing)
           filtered == FilteredFiles(files, last)
       IN  \/ /\ o = "read_record"
              /\ record.exists
              /\ evt' = Append(evt, "read_record")
              /\ Raise("OSError")
              /\ UNCHANGED <<remote_file, outcome>>
           \/ /\ o = "listdir"
              /\ evt' = evt \o <<"read_record", "listdir_raised">>
              /\ Raise("SSHException")
              /\ UNCHANGED <<remote_file, outcome>>
           \/ /\ o = "ok"
              /\ files = <<>>
              /\ evt' = evt \o <<"read_record", "listdir">>
              /\ Return("no_files")
              /\ UNCHANGED remote_file
           \/ /\ o = "ok"
              /\ files # <<>>
              /\ filtered = <<>>
              /\ evt' = evt \o <<"read_record", "listdir">>
              /\ Return("no_new")
              /\ UNCHANGED remote_file
           \/ /\ o = "ok"
              /\ filtered # <<>>
              /\ evt' = evt \o <<"read_record", "listdir", "select">>
              /\ remote_file' = MinByDate(filtered)
              /\ pc' = "download"
              /\ UNCHANGED <<outcome, err>>
           \/ /\ o = "makedirs"
              /\ filtered # <<>>
              /\ evt' = evt \o <<"read_record", "listdir", "select">>
              /\ remote_file' = MinByDate(filtered)
              /\ Raise("OSError")
              /\ UNCHANGED outcome
    /\ recordReads' = IF record.exists THEN Counted(recordReads) ELSE recordReads
    /\ UNCHANGED <<attempt, transport, sftp, last_byte, file_size, rpos,
                   last_error, record, localDir, serverDir, alive,
                   openTransports, closeCalls, nfailed, sleeps, startLocal>>
    /\ UNCHANGED_ENV
    /\ UNCHANGED <<clock, recordWrites, recordTop>>

\* download_with_armor up to the loop, lines 117-134. o is "ok" or the call
\* that raises: "stat", "open_remote"
DlStart(o) ==
    /\ pc = "download"
    /\ LET f    == localDir[remote_file]
           size == remoteSize
           lb   == ResumeOffset(f)
       IN  \/ /\ o = "stat"
              /\ evt' = Append(evt, "stat")
              /\ Raise("OSError")
              /\ UNCHANGED <<file_size, last_byte, rpos, localDir, startLocal>>
           \/ /\ o = "ok"
              /\ AlreadyComplete(lb, size)
              /\ evt' = evt \o <<"stat", "complete">>
              /\ file_size' = size
              /\ last_byte' = lb
              /\ startLocal' = f
              /\ pc' = "record"
              /\ UNCHANGED <<err, rpos, localDir>>
           \/ /\ o = "open_remote"
              /\ ~AlreadyComplete(lb, size)
              /\ evt' = evt \o <<"stat", "open_remote">>
              /\ file_size' = size
              /\ last_byte' = lb
              /\ startLocal' = f
              /\ Raise("OSError")
              /\ UNCHANGED <<rpos, localDir>>
           \/ /\ o = "ok"
              /\ ~AlreadyComplete(lb, size)
              /\ evt' = evt \o <<"stat", "open_remote">>
                            \o (IF lb > 0 THEN <<"seek">> ELSE <<>>)
              /\ file_size' = size
              /\ last_byte' = lb
              /\ startLocal' = f
              /\ rpos' = SeekPos(lb)
              /\ localDir' = [localDir EXCEPT ![remote_file] = OpenLocal(f, OpenMode(lb))]
              /\ pc' = IF lb < size THEN "loop" ELSE "verify"
              /\ UNCHANGED err
    /\ UNCHANGED <<attempt, transport, sftp, remote_file, last_error, outcome,
                   record, serverDir, alive, openTransports, closeCalls,
                   nfailed, sleeps>>
    /\ UNCHANGED_ENV
    /\ UNCHANGED <<clock, recordReads, recordWrites, recordTop>>

\* speed = len(chunk) / (time.time() % 30) divides by zero
ProgressRaises(t) == ProgressDue(t)

\* whether the progress report raises, for every pair of readings of the
\* clock at lines 149 and 151
ProgressOutcomes ==
    {ProgressDue(t2) /\ ProgressRaises(t3) : t2 \in Phases, t3 \in Phases}

\* the local file after local_file.write(chunk)
WriteChunk(f, chunk) == File(f.data \o chunk)

\* one iteration of the download loop, lines 135-160. t1 is the reading of
\* the clock at line 137, o is "data" or "raise" for remote_file.read
DlLoop(t1, o) ==
    /\ pc = "loop"
    /\ last_byte < file_size
    /\ LET f     == localDir[remote_file]
           chunk == ReadChunk(remoteSize, rpos, chunkSize)
       IN  \/ \* the watchdog fires and the probe fails
              /\ WatchdogDue(t1) /\ ~alive
              /\ o = "raise"
              /\ evt' = Append(evt, "probe")
              /\ rpos' = 0
              /\ Raise("SSHException")
              /\ UNCHANGED <<last_byte, localDir>>
           \/ \* the read raises
              /\ ~(WatchdogDue(t1) /\ ~alive)
              /\ o = "raise"
              /\ evt' = Append(evt, "read")
              /\ rpos' = 0
              /\ Raise("SSHException")
              /\ UNCHANGED <<last_byte, localDir>>
           \/ \* end of file: break
              /\ ~(WatchdogDue(t1) /\ ~alive)
              /\ o = "data"
              /\ chunk = <<>>
              /\ evt' = Append(evt, "read")
              /\ rpos' = 0
              /\ pc' = "verify"
              /\ UNCHANGED <<last_byte, localDir, err>>
           \/ \* a chunk is written
              /\ ~(WatchdogDue(t1) /\ ~alive)
              /\ o = "data"
              /\ chunk # <<>>
              /\ evt' = Append(evt, "read")
              /\ localDir' = [localDir EXCEPT ![remote_file] = WriteChunk(f, chunk)]
              /\ last_byte' = last_byte + Len(chunk)
              /\ \E raises \in ProgressOutcomes :
                    IF raises
                    THEN /\ rpos' = 0
                         /\ Raise("ZeroDivisionError")
                    ELSE /\ IF last_byte' < file_size
                            THEN pc' = "loop" /\ rpos' = rpos + Len(chunk)
                            ELSE pc' = "verify" /\ rpos' = 0
                         /\ UNCHANGED err
    /\ UNCHANGED <<attempt, transport, sftp, file_size, remote_file, last_error,
                   outcome, record, serverDir, alive, openTransports,
                   closeCalls, nfailed, sleeps, startLocal>>
    /\ clock' = IF pc' = "loop" THEN t1 ELSE NoReading
    /\ UNCHANGED <<recordReads, recordWrites, recordTop>>
    /\ UNCHANGED_ENV

\* SizeVerified with the comparison left out
SizeVerifiedAlways(f, size) == TRUE

\* os.path.getsize(local_path) == self.file_size
SizeVerified(f, size) == Len(f.data) = size

\* the final verification, lines 162-167
DlVerify ==
    /\ pc = "verify"
    /\ IF SizeVerified(localDir[remote_file], file_size)
       THEN /\ evt' = Append(evt, "verified")
            /\ pc' = "record"
            /\ UNCHANGED err
       ELSE /\ evt' = Append(evt, "mismatch")
            /\ Raise("OSError")
    /\ UNCHANGED <<attempt, transport, sftp, last_byte, file_size, rpos,
                   remote_file, last_error, outcome, record, localDir,
                   serverDir, alive, openTransports, closeCalls, nfailed,
                   sleeps, startLocal>>
    /\ UNCHANGED_ENV
    /\ UNCHANGED <<clock, recordReads, recordWrites, recordTop>>

\* where control goes when writing LAST_FILE_RECORD raises
RecordFailure == Raise("OSError")

\* lines 222-224: write the record. o is "ok", "open" (open raises, the file
\* is untouched) or "write" (the file was truncated, k characters got in)
WriteRecord(o, k) ==
    /\ pc = "record"
    /\ evt' = Append(evt, "write_record")
    /\ \/ /\ o = "ok" /\ k = Len(remote_file)
          /\ record' = File(remote_file)
          /\ pc' = "sync"
          /\ UNCHANGED err
       \/ /\ o = "open" /\ k = 0
          /\ UNCHANGED record
          /\ RecordFailure
       \/ /\ o = "write" /\ k < Len(remote_file) /\ k <= MaxPartial
          /\ record' = File(SubSeq(remote_file, 1, k))
          /\ RecordFailure
    /\ recordWrites' = Counted(recordWrites)
    /\ UNCHANGED <<attempt, transport, sftp, last_byte, file_size, rpos,
                   remote_file, last_error, outcome, localDir, serverDir, alive, openTransports, closeCalls, nfailed, sleeps,
                   startLocal>>
    /\ UNCHANGED_ENV
    /\ recordTop' = LaterToken(extract_date(record'.data), recordTop)
    /\ UNCHANGED <<clock, recordReads>>

\* the copy to SERVER_DIR raises: the error is logged, then main returns
SyncFailure == Return("accomplished")

\* lines 226-233: copy to SERVER_DIR and return. o is "ok" or "raise"
Sync(o) ==
    /\ pc = "sync"
    /\ \/ /\ o = "ok"
          /\ localDir[remote_file].exists
          /\ evt' = Append(evt, "copy")
          /\ serverDir' = [serverDir EXCEPT ![remote_file] = localDir[remote_file]]
          /\ Return("accomplished")
       \/ /\ o = "raise"
          /\ evt' = Append(evt, "copy_failed")
          /\ UNCHANGED serverDir
          /\ SyncFailure
    /\ UNCHANGED <<attempt, transport, sftp, last_byte, file_size, rpos,
                   remote_file, last_error, record, localDir, alive,
                   openTransports, closeCalls, nfailed, sleeps, startLocal>>
    /\ UNCHANGED_ENV
    /\ UNCHANGED <<clock, recordReads, recordWrites, recordTop>>

\* if attempt < MAX_RETRIES - 1
SleepsAfter(a) == a < MAX_RETRIES - 1

\* BackoffDelay with the first delay used for every attempt
BackoffDelayFirst(a) == RETRY_BACKOFF[1]

\* delay = RETRY_BACKOFF[attempt]
BackoffDelay(a) == RETRY_BACKOFF[a + 1]

\* the position after the except clause has logged the failure
AfterExcept(a) == IF SleepsAfter(a) THEN "sleep" ELSE "finally"

\* the except clause, lines 235-242, up to the call of time.sleep
Except ==
    /\ pc = "except"
    /\ last_error' = err
    /\ err' = "none"
    /\ nfailed' = nfailed + 1
    /\ pc' = AfterExcept(attempt)
    /\ IF pc' = "sleep"
       THEN /\ sleeps' = Append(sleeps, BackoffDelay(attempt))
            /\ evt' = evt \o <<"except", "sleep">>
       ELSE /\ UNCHANGED sleeps
            /\ evt' = Append(evt, "except")
    /\ UNCHANGED <<attempt, transport, sftp, last_byte, file_size, rpos,
                   remote_file, outcome, record, localDir, serverDir, alive, openTransports, closeCalls, startLocal>>
    /\ UNCHANGED_ENV
    /\ UNCHANGED <<clock, recordReads, recordWrites, recordTop>>

\* time.sleep(delay) returns, line 242
Sleep ==
    /\ pc = "sleep"
    /\ pc' = "finally"
    /\ UNCHANGED <<attempt, transport, sftp, last_byte, file_size, rpos,
                   remote_file, err, last_error, outcome, record, localDir,
                   serverDir, alive, openTransports, closeCalls, nfailed,
                   sleeps, evt, startLocal>>
    /\ UNCHANGED_ENV
    /\ UNCHANGED <<clock, recordReads, recordWrites, recordTop>>

\* NextAttempt of a loop that never counts its attempts
NextAttemptSame(a) == a

\* the next value of the loop variable of for attempt in range(MAX_RETRIES)
NextAttempt(a) == a + 1

\* the finally clause, line 244: engine.close(), then the pending return or
\* the next iteration of the for loop. o tells which release calls raise; a
\* transport whose close() raises has dropped its connection all the same
\* (it is marked inactive before its socket is touched)
Finally(o) ==
    /\ pc = "finally"
    /\ (SftpCloseRaises(o) => sftp # "none")
    /\ (TransportCloseRaises(o) => transport # "none" /\ TransportCloseReached(o))
    /\ sftp' = ClosedSftp(sftp)
    /\ IF TransportCloseReached(o)
       THEN /\ transport' = ClosedTransport(transport)
            /\ openTransports' = AfterCloseOpen(transport, openTransports)
            /\ alive' = FALSE
       ELSE UNCHANGED <<transport, openTransports, alive>>
    /\ closeCalls' = closeCalls + 1
    /\ IF CloseRaises(o)
       THEN /\ pc' = "done"
            /\ outcome' = "crashed"
            /\ evt' = Append(evt, "close_raised")
            /\ UNCHANGED <<attempt, startLocal>>
       ELSE /\ UNCHANGED outcome
            /\ IF outcome # "running"
               THEN /\ pc' = "done"
                    /\ evt' = evt \o <<"close">>
                                  \o (IF SftpCloseRaises(o)
                                      THEN <<"sftp_close_raised">> ELSE <<>>)
                                  \o (IF TransportCloseRaises(o)
                                      THEN <<"transport_close_raised">> ELSE <<>>)
                    /\ UNCHANGED <<attempt, startLocal>>
               ELSE /\ pc' = "attempt"
                    /\ attempt' = NextAttempt(attempt)
                    /\ evt' = <<>>
                    /\ startLocal' = NoFile
    /\ UNCHANGED <<last_byte, file_size, rpos, remote_file, err, last_error,
                   record, localDir, serverDir, nfailed, sleeps>>
    /\ UNCHANGED_ENV
    /\ UNCHANGED <<clock, recordReads, recordWrites, recordTop>>

\* line 246, after the for loop ran out
Exhausted ==
    /\ pc = "attempt"
    /\ ~(attempt < MAX_RETRIES)
    /\ outcome' = "exhausted"
    /\ pc' = "done"
    /\ UNCHANGED <<attempt, transport, sftp, last_byte, file_size, rpos,
                   remote_file, err, last_error, record, localDir, serverDir,
                   alive, openTransports, closeCalls, nfailed, sleeps,
                   evt, startLocal>>
    /\ UNCHANGED_ENV
    /\ UNCHANGED <<clock, recordReads, recordWrites, recordTop>>

(* ---------------- the surroundings ---------------- *)

\* the remote file loses or gains a byte at its end while a download loop runs
RemoteChange(n) ==
    /\ pc = "loop"
    /\ remoteBudget > 0
    /\ n \in {remoteSize - 1, remoteSize + 1}
    /\ remoteSize' = n
    /\ remoteBudget' = remoteBudget - 1
    /\ remoteChanged' = TRUE
    /\ UNCHANGED <<pc, attempt, transport, sftp, last_byte, file_size, rpos,
                   remote_file, err, last_error, outcome, record, localDir,
                   serverDir, listing, chunkSize, alive, openTransports,
                   closeCalls, nfailed, sleeps, evt, startLocal, seeded,
                   clock, recordReads, recordWrites, recordTop>>

\* the link to the server dies during a download
LinkDrop ==
    /\ pc = "loop"
    /\ alive
    /\ alive' = FALSE
    /\ UNCHANGED <<pc, attempt, transport, sftp, last_byte, file_size, rpos,
                   remote_file, err, last_error, outcome, record, localDir,
                   serverDir, listing, remoteSize, chunkSize, remoteBudget, openTransports, closeCalls, nfailed, sleeps,
                   evt, startLocal, seeded, remoteChanged, clock,
                   recordReads, recordWrites, recordTop>>

(* ---------------- specifications ---------------- *)

MainStep ==
    \/ \E o \in ConnectOutcomes : Connect(o)
    \/ \E o \in {"ok", "read_record", "listdir", "makedirs"} : SelectFile(o)
    \/ \E o \in {"ok", "stat", "open_remote"} : DlStart(o)
    \/ \E t1 \in Phases, o \in {"data", "raise"} : DlLoop(t1, o)
    \/ DlVerify
    \/ \E o \in {"ok", "open", "write"}, k \in 0..Len(remote_file) : WriteRecord(o, k)
    \/ \E o \in {"ok", "raise"} : Sync(o)
    \/ Except
    \/ Sleep
    \/ \E o \in CloseOutcomes : Finally(o)
    \/ Exhausted

Next ==
    \/ MainStep
    \/ \E n \in 0..MaxSize : RemoteChange(n)
    \/ LinkDrop

Spec == Init /\ [][Next]_vars

\* runs for the question of termination: the largest file, read in the
\* smallest and the largest chunks, the remote file changing or not; two
\* files with a record; nothing to download
InitFair ==
    \/ InitWith({<<F1>>}, {NoFile}, {MaxSize}, {1, MaxChunk}, {NoFile},
                {0, MaxRemoteChanges})
    \/ InitRetry
    \/ InitNothing

\* the program's steps are taken as long as one is possible
FairSpec == InitFair /\ [][Next]_vars /\ WF_vars(MainStep)

\* main() up to the selection of the file, for any listing and record
NextSel ==
    \/ \E o \in ConnectOutcomes : Connect(o)
    \/ \E o \in {"ok", "read_record", "listdir", "makedirs"} : SelectFile(o)

SpecSel == InitSel /\ [][NextSel]_vars

\* main() is started again after a run has ended: a new process with a new
\* engine finds the record and the directories as the run before left them
NewRun ==
    /\ pc = "done"
    /\ pc' = "attempt"
    /\ attempt' = 0
    /\ transport' = "none"
    /\ sftp' = "none"
    /\ last_byte' = 0
    /\ file_size' = 0
    /\ remote_file' = <<>>
    /\ last_error' = "none"
    /\ outcome' = "running"
    /\ closeCalls' = 0
    /\ nfailed' = 0
    /\ sleeps' = <<>>
    /\ evt' = <<>>
    /\ startLocal' = NoFile
    /\ recordReads' = 0
    /\ recordWrites' = 0
    /\ UNCHANGED <<rpos, err, record, localDir, serverDir, alive,
                   openTransports, clock, recordTop>>
    /\ UNCHANGED_ENV

\* the steps of a run in which no call fails
RunStep ==
    /\ \/ Connect("ok")
       \/ SelectFile("ok")
       \/ DlStart("ok")
       \/ \E t1 \in Phases : DlLoop(t1, "data")
       \/ DlVerify
       \/ WriteRecord("ok", Len(remote_file))
       \/ Sync("ok")
       \/ Finally("ok")
    /\ pc' # "except"

NextRuns == RunStep \/ NewRun

\* any listing, with no record or an older one
InitRuns ==
    InitWith(Listings, {NoFile, File(F1), File(RShort)}, {1}, {1}, {NoFile}, {0})

\* run after run against the same listing, each run completing
SpecRuns == InitRuns /\ [][NextRuns]_vars /\ WF_vars(NextRuns)

\* whether the current attempt made the call or took the step e
Did(e) == \E i \in DOMAIN evt : evt[i] = e


(* ---------------- properties of download_with_armor ---------------- *)

\* C1: a download that resumes a local file left by an interrupted attempt
\* of the same run, the remote file unchanged, returns success only with the
\* local file equal to the remote bytes 0..S-1, each once and in order.
C1_ResumeByteIdentical ==
    (/\ pc = "record"
     /\ startLocal.exists
     /\ remote_file \notin seeded
     /\ ~remoteChanged)
    => localDir[remote_file] = File(Bytes(remoteSize))

\* a resumed download has completed: it started at an offset 0 < O < S left
\* by a chunk-read error or a watchdog abort, sought to O and was verified
C1_Witness ==
    /\ pc = "record"
    /\ remote_file \notin seeded
    /\ ~remoteChanged
    /\ Did("seek") /\ Did("verified")
    /\ Len(startLocal.data) > 0
    /\ Len(startLocal.data) < file_size
    /\ last_error = "SSHException"

\* what the except clause of main does with the exception of a failed
\* verification: the failure is counted and no record was written
C2_Counted ==
    Did("mismatch") =>
        /\ ~Did("write_record")
        /\ pc \in {"except", "sleep", "finally"}
        /\ (pc = "except" => err # "none")
        /\ (pc # "except" => nfailed = attempt + 1 /\ last_error = "OSError")

\* C2: when the download loop has ended with the local size different from
\* the size stat returned, the call raises, the attempt is counted as failed
\* and LAST_FILE_RECORD is not written in that attempt.
C2_MismatchFails ==
    /\ [][(pc = "verify" /\ Len(localDir[remote_file].data) # file_size)
            => (pc' = "except" /\ err' # "none" /\ record' = record)]_vars
    /\ []C2_Counted

\* a verification failed and the attempt is in its backoff sleep
C2_Witness ==
    /\ pc = "sleep"
    /\ Did("mismatch")
    /\ Len(localDir[remote_file].data) # file_size

\* C8: a call that finds the local file with exactly the remote size opens,
\* seeks and reads nothing remote, leaves the local file as it was and
\* returns success.
C8_CompleteShortCircuit ==
    (/\ Did("stat")
     /\ startLocal.exists
     /\ Len(startLocal.data) = file_size)
    => /\ ~Did("open_remote") /\ ~Did("seek") /\ ~Did("read")
       /\ localDir[remote_file] = startLocal
       /\ (pc = "record" \/ Did("write_record"))

\* the call found a complete local file of at least one byte and returned
C8_Witness ==
    /\ pc = "record"
    /\ Did("stat")
    /\ startLocal.exists
    /\ file_size > 0
    /\ Len(startLocal.data) = file_size


(* ---------------- properties of main() ---------------- *)

\* C3: once download_with_armor has returned success in an attempt, a failure
\* of the recording step (writing LAST_FILE_RECORD, copying to SERVER_DIR) is
\* only logged: the attempt is not counted as failed, nothing sleeps or
\* retries, and the run ends as succeeded.
C3_RecordingFailureOnlyLogged ==
    Did("write_record") =>
        /\ pc \in {"sync", "finally", "done"}
        /\ nfailed = attempt
        /\ (pc \in {"finally", "done"} => outcome = "accomplished")

\* C4: close() runs in every attempt before the next connect() and before
\* main ends, so at most one transport is open at any time and none is open
\* at the top of an attempt or at the end of the run.
C4_CloseEveryAttempt ==
    /\ openTransports \in {0, 1}
    /\ (pc = "attempt" =>
            /\ openTransports = 0
            /\ transport # "open"
            /\ closeCalls = attempt)
    /\ (pc = "done" =>
            /\ openTransports = 0
            /\ transport # "open"
            /\ closeCalls = IF outcome = "exhausted" THEN MAX_RETRIES
                            ELSE attempt + 1)

\* the run gave up after seven attempts, the last of which had connected
C4_Witness ==
    /\ pc = "done"
    /\ outcome = "exhausted"
    /\ closeCalls = MAX_RETRIES
    /\ transport = "closed"
    /\ sftp = "closed"

\* C5: close() of a failed attempt has run when the backoff sleep that
\* follows the attempt begins: no connection is open during the sleep.
C5_ClosedBeforeSleep ==
    pc = "sleep" => (transport # "open" /\ closeCalls = attempt + 1)

\* the delays of the schedule are strictly increasing in the order slept
Increasing(d) == \A i, j \in DOMAIN d : i < j => d[i] < d[j]

\* the sleeps made once n attempts have failed, per the claim as amended
SleepsFor(n) ==
    SubSeq(RETRY_BACKOFF, 1, IF n < MAX_RETRIES THEN n ELSE MAX_RETRIES - 1)

\* C6 as stated: the N-th failed attempt (N < MAX_RETRIES) is followed by one
\* sleep of the N-th delay of the schedule before attempt N+1, the delays
\* slept increase strictly, and when the run gives up every delay of the
\* schedule has been slept.
C6_AllDelaysUsed ==
    /\ (pc \in {"sleep", "finally"} /\ outcome = "running"
            => sleeps = SleepsFor(nfailed))
    /\ (pc = "attempt" /\ attempt < MAX_RETRIES
            => Len(sleeps) = attempt /\ sleeps = SleepsFor(attempt))
    /\ Increasing(sleeps)
    /\ (pc = "done" /\ outcome = "exhausted" => sleeps = RETRY_BACKOFF)

\* C6 as amended: the same, except that a run that gives up has slept the
\* first MAX_RETRIES - 1 delays only, the last one (600) never.
C6_Backoff ==
    /\ (pc \in {"sleep", "finally"} /\ outcome = "running"
            => sleeps = SleepsFor(nfailed))
    /\ (pc = "attempt" =>
            sleeps = SubSeq(RETRY_BACKOFF, 1,
                            IF attempt < MAX_RETRIES THEN attempt
                            ELSE MAX_RETRIES - 1))
    /\ Increasing(sleeps)
    /\ (pc = "done" /\ outcome = "exhausted" =>
            sleeps = SubSeq(RETRY_BACKOFF, 1, MAX_RETRIES - 1))
    /\ (\A i \in DOMAIN sleeps : sleeps[i] # RETRY_BACKOFF[MAX_RETRIES])

\* the run gave up: six sleeps were made, the last one of 300 s
C6_Witness ==
    /\ pc = "done"
    /\ outcome = "exhausted"
    /\ nfailed = MAX_RETRIES
    /\ Len(sleeps) = MAX_RETRIES - 1
    /\ sleeps[MAX_RETRIES - 1] = 300

\* how a run has ended
C7_Ended ==
    /\ attempt <= MAX_RETRIES
    /\ nfailed <= MAX_RETRIES
    /\ (pc = "done" =>
            /\ (outcome = "exhausted" <=> nfailed = MAX_RETRIES)
            /\ (outcome = "exhausted" => attempt = MAX_RETRIES /\ last_error # "none")
            /\ (outcome # "exhausted" => nfailed = attempt /\ attempt < MAX_RETRIES))

\* C7: every run ends after at most MAX_RETRIES attempts; it ends as
\* exhausted, reporting the error of the last attempt, exactly when all
\* attempts failed, and otherwise at the first attempt that does not fail.
C7_Terminates ==
    /\ <>(pc = "done")
    /\ []C7_Ended
    /\ [][pc = "except" => last_error' = err]_vars
    /\ [][pc # "except" => last_error' = last_error]_vars

\* a run ended at its fourth attempt, after three failed ones with a download
C7_Witness ==
    /\ pc = "done"
    /\ outcome = "accomplished"
    /\ attempt = 3
    /\ nfailed = 3
    /\ Did("read")


(* ---------------- properties of the selection ---------------- *)

\* a is before b in the order of strings: at the first position where they
\* differ a has the smaller digit, or a is a proper prefix of b
LexLess(a, b) ==
    \E i \in 1..Len(b) :
        /\ \A j \in 1..(i - 1) : j <= Len(a) /\ a[j] = b[j]
        /\ (i > Len(a) \/ (a[i] # b[i] /\ DigitVal(a[i]) < DigitVal(b[i])))

\* the listed names that carry the marker, yield exactly 8 digits and whose
\* date token is after the digits of the record, if there is a record
Eligible ==
    {f \in {listing[i] : i \in DOMAIN listing} :
        /\ HasMarker(f)
        /\ Len(Digits(f)) = DATE_LEN
        /\ (record.exists => LexLess(Digits(record.data), Digits(f)))}

\* C9: the file selected is an eligible candidate (marker, exactly 8 digits,
\* date token after the recorded one, or any when there is no record) with the
\* smallest date token; a return without selection means none is eligible.
C9_SelectsEarliestNew ==
    /\ (remote_file # <<>> =>
            /\ remote_file \in Eligible
            /\ Len(Digits(remote_file)) = DATE_LEN
            /\ \A e \in Eligible : ~LexLess(Digits(e), Digits(remote_file)))
    /\ (outcome \in {"no_files", "no_new"} => Eligible = {})
    /\ (pc = "download" <=> remote_file # <<>> /\ err = "none")

\* of two dated candidates the later listed, later than the record, is
\* selected and the one the record names is passed over
C9_Witness ==
    /\ pc = "download"
    /\ record = File(F1)
    /\ listing = <<F1, F2>>
    /\ remote_file = F2

\* C10: when no candidate passes the filter the run ends in that attempt: no
\* download is started, LAST_FILE_RECORD and the directories stay as they
\* are, nothing sleeps or retries, and no failure is reported.
C10_NothingNewEndsRun ==
    /\ [][(pc = "select" /\ Eligible = {} /\ Did("listdir")')
            => outcome' \in {"no_files", "no_new"}]_vars
    /\ [][outcome' \in {"no_files", "no_new"} =>
            /\ record' = record
            /\ localDir' = localDir
            /\ serverDir' = serverDir
            /\ sleeps' = sleeps
            /\ nfailed' = nfailed
            /\ attempt' = attempt
            /\ pc' \in {"finally", "done"}
            /\ ~Did("stat")'
            /\ (outcome # "running" => outcome' = outcome)]_vars

\* a run found nothing new at its third attempt and ended
C10_Witness ==
    /\ pc = "done"
    /\ outcome = "no_new"
    /\ attempt = 2
    /\ nfailed = 2
    /\ Len(sleeps) = 2
    /\ record = File(F2)


(* ---------------- properties of a failed download ---------------- *)

\* the bytes the remote handle delivers from offset a up to offset b
Delivered(a, b) == [i \in 1..(b - a) |-> a + i]

\* the local file of an attempt whose download has started: what it held
\* when download_with_armor was called, then the chunks written since
C11_Kept ==
    (Did("open_remote") /\ outcome = "running") =>
        /\ last_byte >= Len(startLocal.data)
        /\ localDir[remote_file].data =
               startLocal.data \o Delivered(Len(startLocal.data), last_byte)
        /\ (startLocal.exists => localDir[remote_file].exists)
        /\ ResumeOffset(localDir[remote_file]) = last_byte

\* C11: an attempt that fails during the download (watchdog, chunk-read
\* error, size mismatch) leaves the local file as its content at the start of
\* the attempt followed by the chunks written in the attempt; nothing touches
\* it until the next download_with_armor call, whose resume offset is its
\* length.
C11_PartialKept ==
    /\ []C11_Kept
    /\ [][(pc \in {"except", "sleep", "finally", "attempt", "select"})
            => (localDir' = localDir)]_vars
    /\ [][(pc = "download" /\ Did("open_remote")')
            => last_byte' = ResumeOffset(localDir[remote_file])]_vars

\* a resumed attempt wrote a chunk after the bytes it found, the watchdog
\* then aborted it, and the attempt is in its backoff sleep
C11_Witness ==
    /\ pc = "sleep"
    /\ Did("probe")
    /\ Len(startLocal.data) > 0
    /\ last_byte > Len(startLocal.data)
    /\ last_byte < file_size

\* C12: from the computation of the resume offset on, in a call that did not
\* short-circuit, resumeOffset <= last_byte <= file_size, and last_byte never
\* decreases within the call.
C12_OffsetWithinSize ==
    /\ [](Did("open_remote") =>
            /\ Len(startLocal.data) <= last_byte
            /\ last_byte <= file_size)
    /\ [][(Did("open_remote") /\ Did("open_remote")')
            => (last_byte' >= last_byte)]_vars


(* ---------------- properties of LAST_FILE_RECORD ---------------- *)

\* C13: every step leaves LAST_FILE_RECORD with its previous content or with
\* the complete name of the file just downloaded, also when the write fails;
\* the record is never empty or a partial name.
C13_RecordNeverPartial ==
    [][record' = record \/ record' = File(remote_file)]_vars


(* ---------------- properties of close() ---------------- *)

\* C14: close() never raises, whatever the state of the engine (never
\* connected, connected partway, already closed) and whichever release call
\* fails: control goes on to the next attempt or to the end of the run, no
\* transport is left open (a failure releasing the sftp client included),
\* and close() on an engine without open transport changes nothing.
C14_CloseNeverRaises ==
    /\ [][pc = "finally" =>
            /\ pc' \in {"attempt", "done"}
            /\ err' = err
            /\ outcome' = outcome
            /\ transport' # "open"
            /\ sftp' # "open"
            /\ openTransports' = 0
            /\ (transport # "open" => transport' = transport)
            /\ (sftp # "open" => sftp' = sftp)]_vars
    /\ [](outcome # "crashed")

\* a run ended with a close() in which self.sftp.close() raised: the
\* transport was released all the same
C14_Witness ==
    /\ pc = "done"
    /\ Did("sftp_close_raised")
    /\ transport = "closed"
    /\ openTransports = 0


(* ---------------- properties of the watchdog ---------------- *)

\* C15: when the connection is not alive and an iteration of the download
\* loop reads the clock at least one sampling interval (10 s) after the
\* reading of the iteration before, the iteration probes the connection and
\* the download aborts without reading another chunk, however the clock
\* advanced in between.
C15_WatchdogSampled ==
    [][(/\ pc = "loop" /\ ~alive
        /\ evt' # evt
        /\ clock # NoReading /\ clock' # NoReading
        /\ IntervalElapsed(clock, clock'))
       => (pc' = "except" /\ Did("probe")' /\ last_byte' = last_byte)]_vars


(* ---------------- properties of successive runs ---------------- *)

\* C16: run after run against the same listing, every candidate that is
\* eligible with respect to the record (marker, 8-digit date token after the
\* recorded one) is eventually downloaded and recorded, and the token of the
\* record increases with every run.
C16_CatchesUp ==
    /\ \A f \in PoolSet :
          (f \in Eligible) ~> (record = File(f) /\ localDir[f].exists)
    /\ [][(record' # record /\ record.exists)
            => LexLess(Digits(record.data), Digits(record'.data))]_vars

\* C17: within one run, whatever the number of attempts, LAST_FILE_RECORD is
\* opened for reading at most once and for writing at most once.
C17_RecordUsedOnce ==
    recordReads <= 1 /\ recordWrites <= 1


(* ---------------- properties of a successful download ---------------- *)

\* C18: whenever download_with_armor has returned success, the local file
\* of the selected name exists and its size is the remote size stat returned
\* in that attempt.
C18_SuccessMeansSameSize ==
    pc = "record" =>
        /\ localDir[remote_file].exists
        /\ Len(localDir[remote_file].data) = file_size


(* ---------------- properties of the recorded token ---------------- *)

\* C19: every write that stores a file name in LAST_FILE_RECORD stores one
\* whose date token is strictly after every token the record held before,
\* also when an earlier write of the record failed.
C19_TokenIncreases ==
    [][(pc = "record" /\ record' = File(remote_file))
        => StrGreater(extract_date(record'.data), recordTop)]_vars


(* ---------------- properties of the progress report ---------------- *)

\* C20: the progress report observes only: an iteration that has written
\* its chunk goes on to the next iteration or to the final verification
\* whatever the clock reads, with no exception raised by the report.
C20_ProgressObservesOnly ==
    [][(pc = "loop" /\ last_byte' > last_byte)
        => (pc' \in {"loop", "verify"} /\ err' = "none")]_vars

====
